---- MODULE Spec2Model ----
(***************************************************************************)
(* All-Colors (src/src/main.cpp): an image is grown by popping colours     *)
(* from a hue-ordered palette and painting each at the open position       *)
(* whose painted neighbours match it best.                                 *)
(*                                                                         *)
(* Modelling conventions                                                   *)
(*  - a Color is a tuple <<b, g, r>>; color[1] is channel 0 of the source. *)
(*  - a cv::Mat is a record [rows, cols, at], at being keyed by <<y, x>>   *)
(*    as in image.at<Color>(y, x).                                         *)
(*  - a Pos is a tuple <<x, y>> (pair<PosComponent, PosComponent>).        *)
(*  - doubles are modelled exactly where the code's arithmetic is          *)
(*    rational (hue, the final division of the cost) as records            *)
(*    [num, den]; the square root of ColorDiff is a fixed-point value      *)
(*    with DiffScale units per 1.0.                                        *)
(*  - the draws of the mt19937 generator are not modelled: every           *)
(*    std::shuffle yields any permutation of its input.                    *)
(*  - std::sort leaves the order of equivalent elements unspecified: it    *)
(*    yields any sorted permutation of its input.                          *)
(***************************************************************************)
EXTENDS Integers, Sequences, FiniteSets

VARIABLES
    image,           \* Mat image: the canvas
    nextPositions,   \* set<Pos> nextPositions: the frontier
    colors,          \* vector<Color> colors: the palette, consumed from the back
    maxFrames,       \* const int maxFrames = colors.size() (0 until it is set)
    imgNum,          \* unsigned long long imgNum: snapshots written so far
    loopIdx,         \* <<b, g, r>>: the counters of the palette loops
    pc,              \* position of main: "palette", "shuffle", "sort", "loop",
                     \* "done", or "abort" after a failed assert
    initNext,        \* history: the frontier returned by Init()
    placements       \* history: the <<pos, color>> of every SetPixel, in order

vars == <<image, nextPositions, colors, maxFrames, imgNum, loopIdx, pc, initNext,
          placements>>

----------------------------------------------------------------------------
(* Bounds of the model *)

\* largest number of cells (rows * cols) of a canvas
MaxCells == 6
\* largest number of non-black pixels of the source image (initial frontier)
MaxInit == 3
\* largest number of colours of a palette
MaxColors == 3
\* largest number of cells of a canvas of the runs checked for termination
MaxLiveCells == 3
\* fixed-point units per 1.0 of a colour distance
DiffScale == 1000

----------------------------------------------------------------------------
(* Program constants *)

invalidColor == 0

\* a spread one less: the block around a position is the position alone
spreadOneLess == 1 - 1

spread == 1

saveEveryNFrames == 512
colValues == 64
colMult == 4

\* x as an unsigned char (Channel)
Channel(x) == x % 256

----------------------------------------------------------------------------
(* Generic helpers *)

Max2(a, b) == IF a >= b THEN a ELSE b
Min2(a, b) == IF a <= b THEN a ELSE b

\* the element of a one-element set. Only({e(x) : x \in {v}}) is e(v) with v
\* evaluated once: TLC evaluates a definition of a LET and an argument of an
\* operator anew at every use while it computes ENABLED
Only(S) == CHOOSE x \in S : TRUE

\* the sequences that list every element of S exactly once
RECURSIVE Orderings(_)
Orderings(S) ==
    IF S = {} THEN {<<>>}
    ELSE UNION {{<<x>> \o p : p \in Orderings(S \ {x})} : x \in S}

\* the elements of w in the order o of their indices
RECURSIVE Reorder(_, _)
Reorder(w, o) ==
    IF o = <<>> THEN <<>> ELSE <<w[Head(o)]>> \o Reorder(w, Tail(o))

\* the orderings of the indices of a vector, by the length of the vector
IndexOrderings == [n \in 0..MaxCells |-> Orderings(1..n)]

\* std::shuffle(v.begin(), v.end(), g): any permutation of v
shuffle(v) ==
    UNION {{Reorder(w, o) : o \in IndexOrderings[Len(w)]} : w \in {v}}

\* floor of the square root of n >= 0
RECURSIVE ISqrt(_)
ISqrt(n) ==
    IF n < 2 THEN n
    ELSE Only({IF (s + 1) * (s + 1) > n THEN s ELSE s + 1 :
                  s \in {2 * ISqrt(n \div 4)}})

\* lexicographic order of pair<int, int>, the order of set<Pos>
PosLess(p, q) == p[1] < q[1] \/ (p[1] = q[1] /\ p[2] < q[2])

\* the elements of a set<Pos> in iteration order
RECURSIVE SetToSeq(_)
SetToSeq(S) ==
    IF S = {} THEN <<>>
    ELSE Only({<<m>> \o SetToSeq(S \ {m}) :
                  m \in {p \in S : \A q \in S \ {p} : PosLess(p, q)}})

----------------------------------------------------------------------------
(* Canvas primitives *)

\* SetPixel with row and column exchanged: image.at<Color>(x, y)
SetPixelTransposed(img, x, y, color) ==
    [img EXCEPT !.at = [c \in DOMAIN @ |-> IF c = <<x, y>> THEN color ELSE @[c]]]

SetPixel(img, x, y, color) ==
    [img EXCEPT !.at = [@ EXCEPT ![<<y, x>>] = color]]

GetPixel(img, x, y) == img.at[<<y, x>>]

\* Mat(rows, cols, ImageType, Scalar_<Channel>(invalidColor))
NewImage(h, w) ==
    [rows |-> h, cols |-> w,
     at |-> [p \in (0..h-1) \X (0..w-1) |-> <<invalidColor, 0, 0>>]]

\* the block of loops that stop one short: nx < x+spread, ny < y+spread
BlockShort(pos) ==
    LET x == pos[1]
        y == pos[2]
        n == 2 * spread
    IN  [i \in 1..(n * n) |->
            <<x - spread + ((i - 1) \div n), y - spread + ((i - 1) % n)>>]

\* the (nx, ny) of the two nested loops around pos, in loop order
Block(pos) ==
    LET x == pos[1]
        y == pos[2]
        n == 2 * spread + 1
    IN  [i \in 1..(n * n) |->
            <<x - spread + ((i - 1) \div n), y - spread + ((i - 1) % n)>>]

\* GetFreeNeighbours without the test of the pixel: every in-bounds cell of
\* the block is returned
GetFreeNeighboursUnfiltered(img, pos) ==
    LET neighbours == Block(pos)
    IN  {neighbours[i] : i \in
            {j \in DOMAIN neighbours :
                LET x == neighbours[j][1]
                    y == neighbours[j][2]
                IN  ~(x < 0 \/ x >= img.cols \/ y < 0 \/ y >= img.rows)}}

\* GetFreeNeighbours whose bounds test returns true: the positions of the
\* block outside the canvas are kept
GetFreeNeighboursOutside(img, pos) ==
    LET neighbours == Block(pos)
    IN  {neighbours[i] : i \in
            {j \in DOMAIN neighbours :
                LET x == neighbours[j][1]
                    y == neighbours[j][2]
                IN  IF x < 0 \/ x >= img.cols \/ y < 0 \/ y >= img.rows
                    THEN TRUE
                    ELSE GetPixel(img, x, y)[1] = invalidColor}}

\* GetFreeNeighbours whose bounds test rejects column 0 and row 0 too
GetFreeNeighboursStrict(img, pos) ==
    LET neighbours == Block(pos)
    IN  {neighbours[i] : i \in
            {j \in DOMAIN neighbours :
                LET x == neighbours[j][1]
                    y == neighbours[j][2]
                IN  IF x <= 0 \/ x >= img.cols \/ y <= 0 \/ y >= img.rows
                    THEN FALSE
                    ELSE GetPixel(img, x, y)[1] = invalidColor}}

\* GetFreeNeighbours that leaves out the diagonal cells of the block
GetFreeNeighboursCross(img, pos) ==
    LET neighbours == Block(pos)
    IN  {neighbours[i] : i \in
            {j \in DOMAIN neighbours :
                LET x == neighbours[j][1]
                    y == neighbours[j][2]
                IN  IF x < 0 \/ x >= img.cols \/ y < 0 \/ y >= img.rows
                    THEN FALSE
                    ELSE /\ x = pos[1] \/ y = pos[2]
                         /\ GetPixel(img, x, y)[1] = invalidColor}}

GetFreeNeighbours(img, pos) ==
    LET neighbours == Block(pos)
    IN  {neighbours[i] : i \in
            {j \in DOMAIN neighbours :
                LET x == neighbours[j][1]
                    y == neighbours[j][2]
                IN  IF x < 0 \/ x >= img.cols \/ y < 0 \/ y >= img.rows
                    THEN FALSE
                    ELSE GetPixel(img, x, y)[1] = invalidColor}}

----------------------------------------------------------------------------
(* Hue *)

Rat(n, d) == [num |-> n, den |-> d]
\* a < b for two rationals with positive denominators
RatLess(a, b) == a.num * b.den < b.num * a.den

min3(a, b, c) == Min2(Min2(a, b), c)
max3(a, b, c) == Max2(Max2(a, b), c)

\* ColorDouble(h, s, v) of a colour; the common factor 1/255.0 of b, g, r
\* cancels in h and s
bgr2hsv(bgr) ==
    LET bc == bgr[1]
        gc == bgr[2]
        rc == bgr[3]
        maxc == max3(rc, gc, bc)
        minc == min3(rc, gc, bc)
        divisor == maxc - minc
        h0 == IF maxc = rc THEN Rat(60 * (gc - bc), divisor)
              ELSE IF maxc = gc THEN Rat(120 * divisor + 60 * (bc - rc), divisor)
              ELSE Rat(240 * divisor + 60 * (rc - gc), divisor)
        h == IF h0.num < 0 THEN Rat(h0.num + 360 * divisor, divisor) ELSE h0
    IN  IF divisor = 0
        THEN <<Rat(0, 1), Rat(0, 1), Rat(0, 1)>>
        ELSE <<h, Rat(divisor, maxc), Rat(maxc, 255)>>

\* the comparator of the palette sort
HueLess(bgr1, bgr2) == RatLess(bgr2hsv(bgr1)[1], bgr2hsv(bgr2)[1])

\* a sort that orders nothing: the palette stays as the shuffle left it
sortUnordered(v) == shuffle(v)

\* std::sort(v.begin(), v.end(), HueLess): any permutation of v that is
\* ordered by the comparator
sort(v) ==
    {t \in shuffle(v) :
        \A i, j \in 1..Len(t) : i < j => ~HueLess(t[j], t[i])}

----------------------------------------------------------------------------
(* Scorer *)

\* ColorDiff with the channel differences taken in unsigned char, saturated
\* at 0
ColorDiffSaturated(bgr1, bgr2) ==
    LET db == Max2(bgr2[1] - bgr1[1], 0)
        dg == Max2(bgr2[2] - bgr1[2], 0)
        dr == Max2(bgr2[3] - bgr1[3], 0)
    IN  ISqrt(DiffScale * DiffScale * (db * db + dg * dg + dr * dr))

ColorDiff(bgr1, bgr2) ==
    LET db == bgr2[1] - bgr1[1]
        dg == bgr2[2] - bgr1[2]
        dr == bgr2[3] - bgr1[3]
    IN  ISqrt(DiffScale * DiffScale * (db * db + dg * dg + dr * dr))

\* the two nested loops of ColorPosDiff from cell i of the block on:
\* acc is <<diff, colorCount>>
RECURSIVE ColorPosDiffLoop(_, _, _, _, _)
ColorPosDiffLoop(img, color, cells, i, acc) ==
    IF i > Len(cells) THEN acc
    ELSE Only({
        IF nx < 0 \/ nx >= img.cols \/ ny < 0 \/ ny >= img.rows
        THEN ColorPosDiffLoop(img, color, cells, i + 1, a)
        ELSE IF GetPixel(img, nx, ny)[1] = invalidColor
             THEN ColorPosDiffLoop(img, color, cells, i + 1, a)
             ELSE ColorPosDiffLoop(img, color, cells, i + 1,
                     <<a[1] + ColorDiff(color, GetPixel(img, nx, ny)), a[2] + 1>>) :
        nx \in {cells[i][1]}, ny \in {cells[i][2]}, a \in {acc}})

\* ColorPosDiff that divides by the divisor once
ColorPosDiffAverage(img, pos, color) ==
    Only({Rat(acc[1], Max2(acc[2], 1)) :
             acc \in {ColorPosDiffLoop(img, color, Block(pos), 1, <<0, 0>>)}})

ColorPosDiff(img, pos, color) ==
    Only({Rat(acc[1], Max2(acc[2], 1) * Max2(acc[2], 1)) :
             acc \in {ColorPosDiffLoop(img, color, Block(pos), 1, <<0, 0>>)}})

----------------------------------------------------------------------------
(* Choice of the position *)

\* the comparator of min_element: rp1.first < rp2.first
RatedLess(rp1, rp2) == RatLess(rp1[1], rp2[1])

\* min_element with a comparator that is not strict: the last minimum
RECURSIVE min_element_last(_, _, _)
min_element_last(v, i, best) ==
    IF i > Len(v) THEN best
    ELSE IF ~RatedLess(v[best], v[i])
         THEN min_element_last(v, i + 1, i)
         ELSE min_element_last(v, i + 1, best)

\* std::min_element from index i on, best being the smallest so far: the
\* index of the first element no other element is less than
RECURSIVE min_element_from(_, _, _)
min_element_from(v, i, best) ==
    IF i > Len(v) THEN best
    ELSE IF RatedLess(v[i], v[best])
         THEN min_element_from(v, i + 1, i)
         ELSE min_element_from(v, i + 1, best)

min_element(v) == min_element_from(v, 2, 1)

\* the vector the transform of FindBestPos builds, before the shuffle
RECURSIVE Transform(_, _, _, _)
Transform(img, ps, color, i) ==
    IF i > Len(ps) THEN <<>>
    ELSE <<  <<ColorPosDiff(img, ps[i], color), ps[i]>>  >>
            \o Transform(img, ps, color, i + 1)

RatedPositions(img, nextPos, color) ==
    Only({Transform(img, ps, color, 1) : ps \in {SetToSeq(nextPos)}})

\* FindBestPos that returns the pair with its components exchanged
FindBestPosSwapped(img, nextPos, color) ==
    {<<shuffled[min_element(shuffled)][2][2], shuffled[min_element(shuffled)][2][1]>> :
        shuffled \in shuffle(RatedPositions(img, nextPos, color))}

\* the positions FindBestPos can return: one for every outcome of the shuffle
FindBestPos(img, nextPos, color) ==
    {shuffled[min_element(shuffled)][2] :
        shuffled \in shuffle(RatedPositions(img, nextPos, color))}

----------------------------------------------------------------------------
(* Start of the run *)

\* NonBlackPositions that inserts Pos(y, x)
NonBlackPositionsTransposed(img) ==
    {<<p[1], p[2]>> : p \in {q \in DOMAIN img.at : img.at[q] > 0}}

\* the positions of the pixels of a grayscale image that are not black
NonBlackPositions(img) ==
    {<<x, y>> : x \in 0..(img.cols - 1), y \in 0..(img.rows - 1)} \cap
    {p \in (0..(img.cols - 1)) \X (0..(img.rows - 1)) : img.at[<<p[2], p[1]>>] > 0}

\* the grayscale images imread can return: h rows, w columns, black (0) but
\* for at most MaxInit white (255) pixels
SourceImages(h, w) ==
    {[rows |-> h, cols |-> w,
      at |-> [p \in (0..h-1) \X (0..w-1) |-> IF p \in white THEN 255 ELSE 0]] :
        white \in {s \in SUBSET ((0..h-1) \X (0..w-1)) : Cardinality(s) <= MaxInit}}

\* the palette colour with the halving done before the multiplication
PaletteColorHalvedFirst(b, g, r) ==
    <<Channel(colMult * b), Channel(colMult * (g \div 2)), Channel(colMult * (r \div 2))>>

\* Color(colMult*b, colMult*g/2, colMult*r/2), each argument narrowed to Channel
PaletteColor(b, g, r) ==
    <<Channel(colMult * b), Channel((colMult * g) \div 2), Channel((colMult * r) \div 2)>>

\* the loop indices <<b, g, r>> of the colours the model's palettes are made of
SampleIndices ==
    <<  <<1, 1, 1>>, <<1, 2, 1>>, <<1, 2, 2>>, <<2, 1, 1>>  >>

\* the palettes of the model: at most MaxColors of the sample colours, in the
\* order the three nested loops push them
GeneratedPalettes ==
    LET n == Len(SampleIndices)
        Pick(sel) ==
            LET idx == SetToSeq({<<i, 0>> : i \in sel})
            IN  [k \in 1..Len(idx) |->
                    LET t == SampleIndices[idx[k][1]]
                    IN  PaletteColor(t[1], t[2], t[3])]
    IN  {Pick(sel) : sel \in {s \in SUBSET (1..n) : Cardinality(s) <= MaxColors}}

\* main after Init(argc, argv) with the path of an image of at most maxCells
\* pixels and after the palette loops
InitOfSize(maxCells) ==
    \E h \in 1..maxCells, w \in 1..maxCells :
        /\ h * w <= maxCells
        /\ \E src \in SourceImages(h, w) :
            /\ image = NewImage(src.rows, src.cols)
            /\ nextPositions = NonBlackPositions(src)
            /\ initNext = NonBlackPositions(src)
        /\ colors \in GeneratedPalettes
        /\ maxFrames = 0
        /\ imgNum = 0
        /\ loopIdx = <<colValues, 1, 1>>
        /\ pc = "shuffle"
        /\ placements = <<>>

Init == InitOfSize(MaxCells)

----------------------------------------------------------------------------
(* Steps of main *)

\* shuffle(colors.begin(), colors.end(), g)
Shuffle ==
    /\ pc = "shuffle"
    /\ colors' \in shuffle(colors)
    /\ pc' = "sort"
    /\ UNCHANGED <<image, nextPositions, maxFrames, imgNum, loopIdx, initNext, placements>>

\* sort(colors.begin(), colors.end(), by hue); maxFrames = colors.size()
Sort ==
    /\ pc = "sort"
    /\ colors' \in sort(colors)
    /\ maxFrames' = Len(colors)
    /\ pc' = "loop"
    /\ UNCHANGED <<image, nextPositions, imgNum, loopIdx, initNext, placements>>

\* colors.back() and colors.pop_back()
back(v) == v[Len(v)]
\* pop_back that removes nothing
pop_back_kept(v) == v

\* pop_back that removes the first element
pop_front(v) == Tail(v)

pop_back(v) == SubSeq(v, 1, Len(v) - 1)

\* one iteration of the while loop
Iterate ==
    /\ pc = "loop"
    /\ colors # <<>> /\ nextPositions # {}
    /\ LET color == back(colors)
           popped == pop_back(colors)
       IN  \E pos \in FindBestPos(image, nextPositions, color) :
             IF pos \notin nextPositions
             THEN \* assert(nextPositionsIt != nextPositions.end())
                  /\ pc' = "abort"
                  /\ colors' = popped
                  /\ UNCHANGED <<image, nextPositions, maxFrames, imgNum,
                                 loopIdx, initNext, placements>>
             ELSE LET erased == nextPositions \ {pos}
                      painted == SetPixel(image, pos[1], pos[2], color)
                      newFreePos == GetFreeNeighbours(painted, pos)
                  IN  /\ colors' = popped
                      /\ image' = painted
                      /\ nextPositions' = erased \cup newFreePos
                      /\ imgNum' = IF Len(popped) % saveEveryNFrames = 0
                                   THEN imgNum + 1 ELSE imgNum
                      /\ placements' = Append(placements, <<pos, color>>)
                      /\ UNCHANGED <<maxFrames, loopIdx, pc, initNext>>

\* the loop condition fails: main returns
Exit ==
    /\ pc = "loop"
    /\ colors = <<>> \/ nextPositions = {}
    /\ pc' = "done"
    /\ UNCHANGED <<image, nextPositions, colors, maxFrames, imgNum, loopIdx, initNext,
                   placements>>

Next == Shuffle \/ Sort \/ Iterate \/ Exit

Spec == Init /\ [][Next]_vars

\* the loop runs to its end: nothing suspends main. The runs are those of the
\* canvases of at most MaxLiveCells cells
FairSpec == InitOfSize(MaxLiveCells) /\ [][Next]_vars /\ WF_vars(Next)

----------------------------------------------------------------------------
(* The palette loops with the program's constants *)

\* the counters after ++r, ++g and ++b as the three for statements step them
NextIdx(idx) ==
    IF idx[3] + 1 < 2 * colValues THEN <<idx[1], idx[2], idx[3] + 1>>
    ELSE IF idx[2] + 1 < 2 * colValues THEN <<idx[1], idx[2] + 1, 1>>
    ELSE <<idx[1] + 1, 1, 1>>

\* before the first colors.push_back; of colors only the back is kept
PaletteInit ==
    /\ pc = "palette"
    /\ loopIdx = <<1, 1, 1>>
    /\ colors = <<>>
    /\ image = NewImage(1, 1)
    /\ nextPositions = {}
    /\ initNext = {}
    /\ maxFrames = 0
    /\ imgNum = 0
    /\ placements = <<>>

\* one colors.push_back(Color(colMult*b, colMult*g/2, colMult*r/2))
PushColor ==
    /\ pc = "palette"
    /\ LET idx == IF colors = <<>> THEN loopIdx ELSE NextIdx(loopIdx)
       IN  /\ idx[1] < colValues
           /\ loopIdx' = idx
           /\ colors' = <<PaletteColor(idx[1], idx[2], idx[3])>>
    /\ UNCHANGED <<image, nextPositions, maxFrames, imgNum, pc, initNext, placements>>

SpecPalette == PaletteInit /\ [][PushColor]_vars

----------------------------------------------------------------------------
(* Vocabulary of the properties *)

InBounds(img, p) ==
    /\ p[1] >= 0 /\ p[1] < img.cols
    /\ p[2] >= 0 /\ p[2] < img.rows

\* the positions of the canvas
Cells(img) == (0..(img.cols - 1)) \X (0..(img.rows - 1))

\* p is a cell that still holds the sentinel
Unset(img, p) == InBounds(img, p) /\ GetPixel(img, p[1], p[2])[1] = invalidColor

\* p is a cell that has been painted
Filled(img, p) == InBounds(img, p) /\ GetPixel(img, p[1], p[2])[1] # invalidColor

Abs(n) == IF n < 0 THEN -n ELSE n
Chebyshev(p, q) == Max2(Abs(p[1] - q[1]), Abs(p[2] - q[2]))

\* no two elements of the sequence s are equal
Distinct(s) == \A i, j \in 1..Len(s) : i # j => s[i] # s[j]

\* an iteration of the loop has painted a cell in this step
Placed == Len(placements') = Len(placements) + 1

----------------------------------------------------------------------------
(* C1: in every reachable state of the growth loop, before the first        *)
(* iteration and after each complete one, every position of the frontier   *)
(* is a cell of the canvas that still holds the sentinel (channel 0 is 0). *)
FrontierUnset ==
    pc \in {"loop", "done"} => \A p \in nextPositions : Unset(image, p)

\* two cells are painted and the frontier still has members
FrontierUnsetWitness ==
    /\ pc = "loop"
    /\ Len(placements) >= 2
    /\ nextPositions # {}

(* C2: no position is written twice and no colour is placed twice: a cell  *)
(* that has left the sentinel never changes again (so every write targets *)
(* a cell holding the sentinel), and the positions and the colours of the  *)
(* placements of a run are pairwise different.                             *)
PlacementsPermanent ==
    [][ /\ \A c \in DOMAIN image.at :
              image.at[c][1] # invalidColor => image'.at[c] = image.at[c]
        /\ Placed =>
              /\ Unset(image, placements'[Len(placements')][1])
              /\ Distinct([i \in 1..Len(placements') |-> placements'[i][1]])
              /\ Distinct([i \in 1..Len(placements') |-> placements'[i][2]])
      ]_vars

\* three colours have been placed
PlacementsPermanentWitness ==
    /\ Len(placements) >= 3
    /\ \E c \in DOMAIN image.at : image.at[c][1] = invalidColor

(* C3: every run reaches Done, within at most (initial palette size)       *)
(* iterations; main leaves the loop only with the palette or the frontier  *)
(* empty, and runs an iteration only while both are non-empty.             *)
Terminates ==
    /\ <>(pc = "done")
    /\ [][ /\ Len(placements') <= maxFrames'
           /\ Placed => (colors # <<>> /\ nextPositions # {})
           /\ (pc = "loop" /\ pc' = "loop") => Placed
           /\ pc' = "done" => (colors = <<>> \/ nextPositions = {})
         ]_vars

\* Done with every colour of a palette of at least two placed and the
\* frontier not exhausted
TerminatesWitness ==
    /\ pc = "done"
    /\ maxFrames >= 2
    /\ Len(placements) = maxFrames
    /\ nextPositions # {}

(* C5: the palette loops emit no colour the canvas reads as unset and no  *)
(* colour twice: every pushed colour has its three channels in 1..255,    *)
(* equal to the unnarrowed values 4*b, 4*g/2 and 4*r/2, channel 0 is not  *)
(* the sentinel, and each pushed colour is greater than the one pushed    *)
(* before it in the lexicographic order of (b, g, r) channels, so that    *)
(* any two pushed colours differ.                                         *)
LexLess(c, d) ==
    \/ c[1] < d[1]
    \/ c[1] = d[1] /\ c[2] < d[2]
    \/ c[1] = d[1] /\ c[2] = d[2] /\ c[3] < d[3]

PaletteSound ==
    [][ LET c == back(colors')
            idx == loopIdx'
        IN  /\ c[1] = colMult * idx[1]
            /\ c[2] = (colMult * idx[2]) \div 2
            /\ c[3] = (colMult * idx[3]) \div 2
            /\ \A k \in 1..3 : c[k] \in 1..255
            /\ c[1] # invalidColor
            /\ colors # <<>> => LexLess(back(colors), c)
      ]_vars

\* the loops over g and r have run to their ends once, up to the channel value
\* 254, and the first colour of b = 2 has been pushed
PaletteSoundWitness ==
    /\ pc = "palette"
    /\ loopIdx = <<2, 1, 1>>
    /\ colors = << <<8, 2, 2>> >>

(* C6: in every state of the growth loop the frontier is exactly the set  *)
(* of the unset cells within Chebyshev distance spread of a filled cell.  *)
OpenBorder(img) ==
    {p \in Cells(img) :
        /\ Unset(img, p)
        /\ \E q \in Cells(img) : Filled(img, q) /\ Chebyshev(p, q) <= spread}

FrontierIsOpenBorder ==
    pc \in {"loop", "done"} => nextPositions = OpenBorder(image)

(* C6 as amended: in every state of the growth loop the frontier holds    *)
(* every unset cell within Chebyshev distance spread of a filled cell,    *)
(* and every member of the frontier is such a cell or an unset position   *)
(* of the initial frontier.                                               *)
FrontierCoversOpenBorder ==
    pc \in {"loop", "done"} =>
        /\ OpenBorder(image) \subseteq nextPositions
        /\ nextPositions \subseteq
               OpenBorder(image) \cup {p \in initNext : Unset(image, p)}

\* after a placement the frontier holds a cell the placement exposed and an
\* initial position that no filled cell is near
FrontierCoversOpenBorderWitness ==
    /\ pc = "loop"
    /\ placements # <<>>
    /\ \E p \in nextPositions : p \notin initNext
    /\ \E p \in nextPositions : p \notin OpenBorder(image)

(* C7: the palette sort orders the shuffled colours by non-decreasing hue *)
(* and is stable: two colours of equal hue keep the relative order they   *)
(* had after the shuffle.                                                 *)
IndexOf(v, x) == CHOOSE i \in 1..Len(v) : v[i] = x

SortIsStable ==
    [][pc = "sort" =>
          /\ \A i, j \in 1..Len(colors') :
                i < j => ~HueLess(colors'[j], colors'[i])
          /\ \A i, j \in 1..Len(colors) :
                (i < j /\ ~HueLess(colors[i], colors[j]) /\ ~HueLess(colors[j], colors[i]))
                    => IndexOf(colors', colors[i]) < IndexOf(colors', colors[j])
      ]_vars

(* C8: a snapshot is written at the end of an iteration exactly when the  *)
(* number of placements made so far is a positive multiple of             *)
(* saveEveryNFrames.                                                      *)
SnapshotEveryN ==
    [][Placed =>
          /\ imgNum' \in {imgNum, imgNum + 1}
          /\ (imgNum' = imgNum + 1) <=> (Len(placements') % saveEveryNFrames = 0)
      ]_vars

(* C9: in every iteration the chosen position is a member of the frontier *)
(* whose cost against the popped colour no frontier position undercuts    *)
(* (the rated vector holds the cost of every frontier position);          *)
(* whatever the shuffle yields, min_element picks the first element of    *)
(* minimal cost of the shuffled vector, and the chosen position is that   *)
(* element for one outcome of the shuffle.                                *)
FirstMinimum(v, i) ==
    /\ i \in 1..Len(v)
    /\ \A j \in 1..Len(v) : ~RatedLess(v[j], v[i])
    /\ \A j \in 1..(i - 1) : RatedLess(v[i], v[j])

ChoiceIsFirstMinimum ==
    [][Placed =>
          \A pos \in {back(placements')[1]} :
          \A rated \in {RatedPositions(image, nextPositions, back(colors))} :
          \A shuffles \in {shuffle(rated)} :
             /\ pos \in nextPositions
             /\ {rated[i][2] : i \in 1..Len(rated)} = nextPositions
             /\ \A cost \in {ColorPosDiff(image, pos, back(colors))} :
                   \A i \in 1..Len(rated) : ~RatLess(rated[i][1], cost)
             /\ \A sh \in shuffles : FirstMinimum(sh, min_element(sh))
             /\ \E sh \in shuffles : sh[min_element(sh)][2] = pos
      ]_vars

\* a placement has been made and the next colour has two frontier positions
\* of equal minimal cost and one of higher cost
ChoiceIsFirstMinimumWitness ==
    /\ pc = "loop"
    /\ placements # <<>>
    /\ colors # <<>>
    /\ \E p, q, r \in nextPositions :
          LET cp == ColorPosDiff(image, p, back(colors))
              cq == ColorPosDiff(image, q, back(colors))
              cr == ColorPosDiff(image, r, back(colors))
          IN  /\ p # q
              /\ ~RatLess(cp, cq) /\ ~RatLess(cq, cp)
              /\ RatLess(cp, cr)
              /\ \A t \in nextPositions :
                    ~RatLess(ColorPosDiff(image, t, back(colors)), cp)

(* C10: the cost of a position against a colour is the sum of the colour  *)
(* distances to the filled cells within Chebyshev distance spread of the  *)
(* position, divided by the square of max(n, 1), n being the number of    *)
(* those cells; with n = 0 the divisor is 1 and the cost is the empty     *)
(* sum, and the divisor is never 0.                                       *)
RECURSIVE SumOfDiffs(_, _, _)
SumOfDiffs(img, color, cells) ==
    IF cells = {} THEN 0
    ELSE LET c == CHOOSE x \in cells : TRUE
         IN  ColorDiff(color, GetPixel(img, c[1], c[2]))
                + SumOfDiffs(img, color, cells \ {c})

FilledNear(img, pos) ==
    {q \in Cells(img) : Filled(img, q) /\ Chebyshev(q, pos) <= spread}

CostIsSquaredAverage ==
    (pc = "loop" /\ colors # <<>>) =>
        \A pos \in Cells(image) :
            LET near == FilledNear(image, pos)
                n == Cardinality(near)
                cost == ColorPosDiff(image, pos, back(colors))
            IN  /\ cost.den = Max2(n, 1) * Max2(n, 1)
                /\ cost.den # 0
                /\ cost.num = SumOfDiffs(image, back(colors), near)
                /\ n = 0 => cost = Rat(0, 1)

\* a colour is about to be scored against a frontier position with two filled
\* cells near it and against one with none
CostIsSquaredAverageWitness ==
    /\ pc = "loop"
    /\ colors # <<>>
    /\ \E p \in nextPositions : Cardinality(FilledNear(image, p)) >= 2
    /\ \E p \in nextPositions : FilledNear(image, p) = {}

(* C11: colours are consumed in the order the sort left, one in every     *)
(* iteration and with no reordering: the palette after the sort is        *)
(* ordered by non-decreasing hue; every iteration places the colour at    *)
(* the back of the palette and removes exactly that element; the colours  *)
(* still in the palette followed by the placed colours from the last      *)
(* placed to the first are at all times the palette as the sort left it   *)
(* (the i-th colour placed is its i-th element from the back); the hue of *)
(* successively placed colours never increases.                           *)
PlacedColors == [i \in 1..Len(placements) |-> placements[i][2]]

Reverse(s) == [i \in 1..Len(s) |-> s[Len(s) + 1 - i]]

ConsumedFromBack ==
    [][ /\ pc = "sort" =>
              /\ \A i, j \in 1..Len(colors') : i < j => ~HueLess(colors'[j], colors'[i])
              /\ placements' = <<>>
        /\ pc = "loop" =>
              colors' \o Reverse(PlacedColors') = colors \o Reverse(PlacedColors)
        /\ Placed =>
              /\ Len(colors') = Len(colors) - 1
              /\ placements'[Len(placements')][2] = colors[Len(colors)]
              /\ \A i, j \in 1..Len(placements') :
                    i < j => ~HueLess(placements'[i][2], placements'[j][2])
      ]_vars

\* three colours have been placed, the first of a greater hue than the last
ConsumedFromBackWitness ==
    /\ Len(placements) = 3
    /\ HueLess(placements[3][2], placements[1][2])

(* C12: when the palette has more colours than the canvas has cells, the  *)
(* run reaches Done, no assertion fails on the way, and at Done the       *)
(* frontier is empty while colours remain in the palette: the colours     *)
(* that remain are those that were not placed.                            *)
FrontierExhaustedFirst ==
    /\ <>(pc = "done")
    /\ [][ /\ pc' # "abort"
           /\ (pc' = "done" /\ maxFrames' > Cardinality(Cells(image'))) =>
                 /\ nextPositions' = {}
                 /\ colors' # <<>>
                 /\ Len(colors') = maxFrames' - Len(placements')
         ]_vars

\* Done on a canvas of one cell, the seed, with that cell painted and two
\* colours left
FrontierExhaustedFirstWitness ==
    /\ pc = "done"
    /\ Cardinality(Cells(image)) = 1
    /\ initNext = {<<0, 0>>}
    /\ Len(placements) = 1
    /\ Len(colors) = 2

(* C13: in a run from a single seed on a canvas with more cells than the  *)
(* palette has colours, after k >= 1 iterations exactly k cells are       *)
(* painted and the frontier is the union of the 3x3 neighbourhoods of the *)
(* k painted cells, clipped to the canvas, minus the painted cells; the   *)
(* loop never finds the frontier empty, and at Done the palette is empty, *)
(* every colour has been placed and cells remain unset.                   *)
Neighbourhood3x3(img, p) == {q \in Cells(img) : Chebyshev(p, q) <= 1}

SingleSeedGrowth ==
    (/\ pc \in {"loop", "done"}
     /\ Cardinality(initNext) = 1
     /\ maxFrames < Cardinality(Cells(image))) =>
        LET filled == {c \in Cells(image) : Filled(image, c)}
            k == Len(placements)
        IN  /\ Cardinality(filled) = k
            /\ filled = {placements[i][1] : i \in 1..k}
            /\ k >= 1 =>
                  nextPositions =
                     UNION {Neighbourhood3x3(image, placements[i][1]) : i \in 1..k}
                        \ filled
            /\ pc = "loop" => nextPositions # {}
            /\ pc = "done" =>
                  /\ colors = <<>>
                  /\ k = maxFrames
                  /\ \E c \in Cells(image) : Unset(image, c)

\* Done after three placements from one seed on a canvas of two rows and
\* three columns
SingleSeedGrowthWitness ==
    /\ pc = "done"
    /\ Cardinality(initNext) = 1
    /\ image.rows = 2 /\ image.cols = 3
    /\ Len(placements) = 3
    /\ maxFrames = 3

(* C14: before the first iteration the canvas is entirely sentinel and    *)
(* the frontier is the neighbour expansion of the seed positions: the     *)
(* in-bounds unset cells within Chebyshev distance spread of a seed, as   *)
(* GetFreeNeighbours computes them. The seeds are the positions Init()    *)
(* derives from its input.                                                *)
BeforeFirstIteration ==
    pc \in {"shuffle", "sort"} \/ (pc = "loop" /\ placements = <<>>)

FrontierIsSeedExpansion ==
    BeforeFirstIteration =>
        /\ \A c \in Cells(image) : Unset(image, c)
        /\ nextPositions = UNION {GetFreeNeighbours(image, s) : s \in initNext}

(* C14 as amended: before the first iteration the canvas is entirely      *)
(* sentinel and the frontier is exactly the set of positions Init()       *)
(* returned, each of them a cell of the canvas: no neighbour expansion is *)
(* applied to them.                                                       *)
FrontierIsInitPositions ==
    BeforeFirstIteration =>
        /\ \A c \in DOMAIN image.at : image.at[c] = <<invalidColor, 0, 0>>
        /\ DOMAIN image.at = (0..(image.rows - 1)) \X (0..(image.cols - 1))
        /\ nextPositions = initNext
        /\ \A p \in nextPositions : InBounds(image, p)

\* the loop is about to run its first iteration with two positions in the
\* frontier and, next to one of them, a cell that is not in the frontier
FrontierIsInitPositionsWitness ==
    /\ pc = "loop"
    /\ placements = <<>>
    /\ Cardinality(nextPositions) = 2
    /\ \E s \in nextPositions :
          \E q \in Cells(image) : Chebyshev(s, q) <= spread /\ q \notin nextPositions

FrontierInBounds ==
    (\A p \in initNext : InBounds(image, p)) =>
        /\ \A p \in nextPositions :
              /\ p[1] \in 0..(image.cols - 1)
              /\ p[2] \in 0..(image.rows - 1)
              /\ \A q \in GetFreeNeighbours(image, p) : <<q[2], q[1]>> \in DOMAIN image.at
        /\ \A i \in 1..Len(placements) :
              <<placements[i][1][2], placements[i][1][1]>> \in DOMAIN image.at
        /\ pc # "abort"

\* a cell in a corner of a canvas of at least two rows and two columns has
\* been painted and the frontier has members
FrontierInBoundsWitness ==
    /\ pc = "loop"
    /\ image.rows >= 2 /\ image.cols >= 2
    /\ \E i \in 1..Len(placements) :
          placements[i][1] = <<image.cols - 1, image.rows - 1>>
    /\ nextPositions # {}

(* C17: frontier completeness: in every reachable state every cell of    *)
(* the canvas that is unset and within Chebyshev distance 1 of at least   *)
(* one painted cell is a member of the frontier, whatever other positions *)
(* the initial frontier contributed.                                      *)
FrontierComplete ==
    \A p \in Cells(image) :
        (/\ image.at[<<p[2], p[1]>>][1] = invalidColor
         /\ \E q \in Cells(image) :
               /\ image.at[<<q[2], q[1]>>][1] # invalidColor
               /\ Chebyshev(p, q) <= 1)
            => p \in nextPositions

\* a cell is painted, an unset cell diagonally next to it is in the
\* frontier, and the frontier holds a position that no painted cell is near
FrontierCompleteWitness ==
    /\ Len(placements) >= 1
    /\ \E p \in nextPositions :
          \E i \in 1..Len(placements) :
              /\ Abs(p[1] - placements[i][1][1]) = 1
              /\ Abs(p[2] - placements[i][1][2]) = 1
    /\ \E p \in nextPositions :
          \A i \in 1..Len(placements) : Chebyshev(p, placements[i][1]) > 1

(* C18: in every iteration the popped colour differs from every colour   *)
(* on the canvas; a frontier position with no painted cell within         *)
(* Chebyshev distance 1 costs 0 and a frontier position with a painted    *)
(* cell within that distance costs more than 0; so whenever the frontier  *)
(* holds a position of the first kind, the position chosen is of that     *)
(* kind, and a position with painted neighbours is chosen only when no    *)
(* isolated frontier position remains.                                    *)
Isolated(img, p) ==
    \A q \in Cells(img) :
        Chebyshev(p, q) <= 1 => img.at[<<q[2], q[1]>>][1] = invalidColor

IsolatedFirst ==
    [][Placed =>
          \A pos \in {placements'[Len(placements')][1]} :
          \A color \in {colors[Len(colors)]} :
          \A rated \in {RatedPositions(image, nextPositions, color)} :
             /\ \A c \in DOMAIN image.at : image.at[c] # color
             /\ {rated[i][2] : i \in 1..Len(rated)} = nextPositions
             /\ \A i \in 1..Len(rated) :
                   IF Isolated(image, rated[i][2])
                   THEN rated[i][1].num = 0
                   ELSE rated[i][1].num > 0 /\ rated[i][1].den > 0
             /\ (\E p \in nextPositions : Isolated(image, p)) => Isolated(image, pos)
             /\ ~Isolated(image, pos) => \A p \in nextPositions : ~Isolated(image, p)
      ]_vars

\* the second placement was made away from the first while the frontier held
\* a position next to the first
IsolatedFirstWitness ==
    /\ Len(placements) = 2
    /\ Chebyshev(placements[1][1], placements[2][1]) > 1
    /\ \E q \in nextPositions :
          /\ Chebyshev(q, placements[1][1]) <= 1
          /\ Chebyshev(q, placements[2][1]) > 1

(* C19: if the initial frontier is not empty and lies on the canvas and   *)
(* the palette holds at least W*H colours, the run reaches Done with      *)
(* every cell of the canvas painted; in any run with a non-empty initial  *)
(* frontier the frontier is not empty while a cell is unset.              *)
FillsCanvas ==
    /\ <>(pc = "done")
    /\ [][ /\ (/\ pc' \in {"loop", "done"}
               /\ initNext' # {}
               /\ \A p \in initNext' : InBounds(image', p)
               /\ \E c \in Cells(image') : Unset(image', c))
                  => nextPositions' # {}
           /\ (/\ pc' = "done"
               /\ initNext' # {}
               /\ \A p \in initNext' : InBounds(image', p)
               /\ maxFrames' >= image'.rows * image'.cols)
                  => /\ \A c \in Cells(image') : Filled(image', c)
                     /\ Len(placements') = image'.rows * image'.cols
         ]_vars

\* Done on a canvas of three cells grown from one position at an end of it,
\* all three painted
FillsCanvasWitness ==
    /\ pc = "done"
    /\ image.rows * image.cols = 3
    /\ initNext \in {{<<0, 0>>}, {<<2, 0>>}, {<<0, 2>>}}
    /\ \A c \in Cells(image) : Filled(image, c)

============================================================================
